---- MODULE Spec2Model ----
(***************************************************************************)
(* A model of the line-oriented search utility: the range parser           *)
(* (range.c), the matcher search_line and the driver main (main.c).        *)
(*                                                                         *)
(* A C string is a sequence of one-character strings; its terminator is    *)
(* not an element of the sequence but is what is read at offset Len(s).    *)
(* A pointer into a string is an offset from its start, NULL is -1.        *)
(***************************************************************************)
EXTENDS Integers, Sequences, FiniteSets, TLC

VARIABLES
    pc,               \* position of the running function
    option_field,     \* main: the set of option bits that are set
    range_arg,        \* main: argument of -r
    search_term,      \* main: TERM
    file,             \* the content of FILE, a sequence of characters
    stream,           \* the part of FILE not yet read through searchfile
    save_file,        \* what has happened to the file named by -s
    lowerrange, upperrange,
    linebuff,         \* main: the string held by linebuff
    linecount,
    search_start,     \* main: offset of search_start in linebuff, or NULL
    matches_on_line,
    resultstracker,
    out,              \* what was printed to file_stream, one entry per result
    calls,            \* number of calls of search_line made so far
    status            \* exit status of main, NONE while it runs

vars == <<pc, option_field, range_arg, search_term, file, stream, save_file,
          lowerrange, upperrange, linebuff, linecount, search_start,
          matches_on_line, resultstracker, out, calls, status>>

(***************************************************************************)
(* Characters and <ctype.h> in the C locale                                *)
(***************************************************************************)
NUL == "NUL"          \* the string terminator '\0'
OOB == "OOB"          \* what a read past the terminator would give
NL == "\n"
NULL == -1
NONE == -1

LowerCase == <<"a","b","c","d","e","f","g","h","i","j","k","l","m",
               "n","o","p","q","r","s","t","u","v","w","x","y","z">>
UpperCase == <<"A","B","C","D","E","F","G","H","I","J","K","L","M",
               "N","O","P","Q","R","S","T","U","V","W","X","Y","Z">>
Digits == <<"0","1","2","3","4","5","6","7","8","9">>

Range(f) == {f[i] : i \in DOMAIN f}

isdigit(c) == c \in Range(Digits)
isalnum(c) == c \in Range(LowerCase) \cup Range(UpperCase) \cup Range(Digits)
isspace(c) == c \in {" ", "\t", "\n", "\r", "\f", "VT"}

toupper(c) ==
    IF c \in Range(LowerCase)
    THEN UpperCase[CHOOSE i \in DOMAIN LowerCase : LowerCase[i] = c]
    ELSE c

\* s[i] of C, for a 0-based offset i
At(s, i) ==
    IF i >= 0 /\ i < Len(s) THEN s[i + 1]
    ELSE IF i = Len(s) THEN NUL
    ELSE OOB

strlen(s) == Len(s)

\* the string that starts at offset p of s
StrFrom(s, p) == SubSeq(s, p + 1, Len(s))

Min(S) == CHOOSE x \in S : \A y \in S : x <= y

(***************************************************************************)
(* range.c                                                                 *)
(*                                                                         *)
(* A long is 64 bits wide, so no string that fits temp_buffer overflows    *)
(* it.  A long is kept as its sign and its magnitude, and of a magnitude   *)
(* above INT_MAX only that fact is kept.                                   *)
(***************************************************************************)
INT_MAX == 2147483647
TEMP_BUFFER_SIZE == 16

digit_value(c) == (CHOOSE i \in DOMAIN Digits : Digits[i] = c) - 1

\* acc * 10 + d as a magnitude: above is set once the value exceeds INT_MAX,
\* and n is the value while it does not
push_digit(acc, d) ==
    IF acc.above \/ acc.n > (INT_MAX - d) \div 10
    THEN [above |-> TRUE, n |-> 0]
    ELSE [above |-> FALSE, n |-> acc.n * 10 + d]

\* strtol's conversion loop from offset i on: the magnitude read and the
\* offset of the first character that is not a digit
RECURSIVE strtol_digits(_, _, _)
strtol_digits(s, i, acc) ==
    IF ~isdigit(At(s, i)) THEN [mag |-> acc, endptr |-> i]
    ELSE strtol_digits(s, i + 1, push_digit(acc, digit_value(At(s, i))))

RECURSIVE skip_space(_, _)
skip_space(s, i) == IF isspace(At(s, i)) THEN skip_space(s, i + 1) ELSE i

\* strtol(s, &endptr, 10): white space, an optional sign, then digits; with no
\* digit at all nothing is converted and endptr is s itself
strtol(s) ==
    LET b == skip_space(s, 0)
        signed == At(s, b) \in {"+", "-"}
        first == IF signed THEN b + 1 ELSE b
        r == strtol_digits(s, first, [above |-> FALSE, n |-> 0])
    IN  IF r.endptr = first
        THEN [neg |-> FALSE, mag |-> [above |-> FALSE, n |-> 0], endptr |-> 0]
        ELSE [neg |-> At(s, b) = "-", mag |-> r.mag, endptr |-> r.endptr]

\* start is a string, end an offset into it or NULL
safe_strtol_extract(start, end) ==
    LET len == IF end = NULL THEN strlen(start) ELSE end
    IN  IF len = 0 \/ len >= TEMP_BUFFER_SIZE \/ len > 10 THEN -1
        ELSE LET temp_buffer == SubSeq(start, 1, len)
                 r == strtol(temp_buffer)
                 val_above_int_max == ~r.neg /\ r.mag.above
                 val_below_zero == r.neg /\ (r.mag.above \/ r.mag.n > 0)
             IN  IF At(temp_buffer, r.endptr) # NUL \/ r.endptr = 0
                    \/ val_above_int_max \/ val_below_zero
                 THEN -1
                 ELSE r.mag.n

\* strchr(s, c): the offset of the first c in s, or NULL
strchr(s, c) ==
    IF \E i \in 1..Len(s) : s[i] = c
    THEN Min({i \in 1..Len(s) : s[i] = c}) - 1
    ELSE NULL

get_low_range(arg) ==
    LET delimiter == strchr(arg, "-")
    IN  IF delimiter = NULL THEN safe_strtol_extract(arg, NULL)
        ELSE safe_strtol_extract(arg, delimiter)

\* get_high_range converting from the hyphen on, not from the character after it
get_high_range_from_hyphen(arg) ==
    LET delimiter == strchr(arg, "-")
    IN  IF delimiter = NULL THEN safe_strtol_extract(arg, NULL)
        ELSE safe_strtol_extract(StrFrom(arg, delimiter), NULL)

get_high_range(arg) ==
    LET delimiter == strchr(arg, "-")
    IN  IF delimiter = NULL THEN safe_strtol_extract(arg, NULL)
        ELSE safe_strtol_extract(StrFrom(arg, delimiter + 1), NULL)

(***************************************************************************)
(* main.c: options, is_word_char, search_line                              *)
(***************************************************************************)
MAX_LINE_LENGTH == 2048
MAX_TERM_LENGTH == 128

OPTION_IGNORE == "OPTION_IGNORE"
OPTION_ISOLATE == "OPTION_ISOLATE"
OPTION_LINES == "OPTION_LINES"
OPTION_RANGE == "OPTION_RANGE"
OPTION_REMOVE == "OPTION_REMOVE"
OPTION_SAVE == "OPTION_SAVE"

\* is_word_char with the underscore forgotten
is_word_char_alnum_only(c) == isalnum(c)

is_word_char(c) == isalnum(c) \/ c = "_"

\* the comparison of one character of the line with one of the term
chars_match(lc, tc, options) ==
    IF OPTION_IGNORE \in options THEN toupper(lc) = toupper(tc) ELSE lc = tc

\* the for loop stopping one character early (i < term_len - 1)
RECURSIVE rest_matches_short(_, _, _, _, _)
rest_matches_short(line, p, term, options, i) ==
    IF i >= strlen(term) - 1 THEN TRUE
    ELSE IF ~chars_match(At(line, p + i), At(term, i), options) THEN FALSE
    ELSE rest_matches_short(line, p, term, options, i + 1)

\* step 2 of the loop body: the for loop over i = from .. term_len - 1,
\* which stops at the first mismatch
RECURSIVE rest_matches(_, _, _, _, _)
rest_matches(line, p, term, options, i) ==
    IF i >= strlen(term) THEN TRUE
    ELSE IF ~chars_match(At(line, p + i), At(term, i), options) THEN FALSE
    ELSE rest_matches(line, p, term, options, i + 1)

start_ok(line, p) == (p = 0) \/ ~is_word_char(At(line, p - 1))

end_ok(line, p, term_len) ==
    At(line, p + term_len) = NUL \/ ~is_word_char(At(line, p + term_len))

\* the while loop of search_line with current_line_ptr = line + p
RECURSIVE search_from(_, _, _, _)
search_from(line, term, options, p) ==
    IF At(line, p) = NUL THEN NULL
    ELSE IF ~chars_match(At(line, p), At(term, 0), options)
         THEN search_from(line, term, options, p + 1)
    ELSE IF rest_matches(line, p, term, options, 1)
            /\ (OPTION_ISOLATE \in options
                  => start_ok(line, p) /\ end_ok(line, p, strlen(term)))
         THEN p
    ELSE search_from(line, term, options, p + 1)

\* search_line finding the empty term at the start of the line, as strstr does
search_line_finds_empty(line, term, options) ==
    IF term = <<>> THEN 0 ELSE search_from(line, term, options, 0)

search_line(line, term, options) == search_from(line, term, options, 0)

(***************************************************************************)
(* Inputs of the model                                                     *)
(***************************************************************************)
\* all strings over alphabet of length at most n
Strings(alphabet, n) == UNION {[1..k -> alphabet] : k \in 0..n}

\* the string of n characters c
Rep(c, n) == [i \in 1..n |-> c]

MaxSearchLineLen == 4
MaxSearchTermLen == 2
SearchAlphabet == {"a", "A", "_", " "}

Hello == <<"H","e","l","l","o">>
hello == <<"h","e","l","l","o">>
cat == <<"c","a","t">>
catalog_cat == <<"c","a","t","a","l","o","g"," ","c","a","t">>

SearchExamples ==
    {<<catalog_cat, cat>>, <<Hello, hello>>, <<hello, Hello>>,
     <<catalog_cat, <<"t"," ">> >>, <<Hello, <<>> >>}

SearchInputs ==
    (Strings(SearchAlphabet, MaxSearchLineLen)
        \X Strings(SearchAlphabet, MaxSearchTermLen))
    \cup SearchExamples

\* the values the driver's variables have while only a function is exercised
Idle ==
    /\ range_arg = <<>>
    /\ file = <<>>
    /\ stream = <<>>
    /\ save_file = "untouched"
    /\ lowerrange = 0
    /\ upperrange = 0
    /\ linecount = 0
    /\ matches_on_line = 0
    /\ resultstracker = 0
    /\ out = <<>>
    /\ calls = 0
    /\ status = NONE

(***************************************************************************)
(* SpecSearch: one call of search_line on a whole line                     *)
(***************************************************************************)
InitSearch ==
    /\ pc = "call_search_line"
    /\ \E in \in SearchInputs :
          /\ linebuff = in[1]
          /\ search_term = in[2]
    /\ option_field \in SUBSET {OPTION_IGNORE, OPTION_ISOLATE}
    /\ search_start = NULL
    /\ Idle

CallSearchLine ==
    /\ pc = "call_search_line"
    /\ search_start' = search_line(linebuff, search_term, option_field)
    /\ calls' = calls + 1
    /\ pc' = "search_line_returned"
    /\ UNCHANGED <<option_field, range_arg, search_term, file, stream, save_file,
                   lowerrange, upperrange, linebuff, linecount, matches_on_line,
                   resultstracker, out, status>>

NextSearch == CallSearchLine

SpecSearch == InitSearch /\ [][NextSearch]_vars

(***************************************************************************)
(* What the claims call an occurrence, stated without the code's operators *)
(***************************************************************************)
Letters == Range(LowerCase) \cup Range(UpperCase)

SameLetter(c, d) ==
    \E i \in DOMAIN LowerCase : {c, d} \subseteq {LowerCase[i], UpperCase[i]}

SameChar(c, d, folded) == c = d \/ (folded /\ SameLetter(c, d))

WordCharacter(c) == c \in Letters \cup Range(Digits) \cup {"_"}

\* the term's characters stand in line from offset q on
OccursAt(line, term, folded, q) ==
    /\ q >= 0
    /\ q + Len(term) <= Len(line)
    /\ \A i \in 1..Len(term) : SameChar(line[q + i], term[i], folded)

\* no word character next to the occurrence at offset q, on either side
IsolatedAt(line, term, q) ==
    /\ q > 0 => ~WordCharacter(line[q])
    /\ q + Len(term) < Len(line) => ~WordCharacter(line[q + Len(term) + 1])

\* the offsets a search with these options may return
Matches(line, term, options) ==
    {q \in 0..Len(line) :
        /\ OccursAt(line, term, OPTION_IGNORE \in options, q)
        /\ OPTION_ISOLATE \in options => IsolatedAt(line, term, q)}

Returned == pc = "search_line_returned"

\* C1 as stated: with no option set, and the empty term included, a term that
\* stands in the line at some offset is found, at its leftmost exact occurrence.
C1_LeftmostExactAnyTerm ==
    (Returned /\ option_field = {} /\ Len(search_term) <= Len(linebuff)
       /\ Matches(linebuff, search_term, {}) # {})
    => /\ search_start # NULL
       /\ search_start = Min(Matches(linebuff, search_term, {}))
       /\ \A p \in Matches(linebuff, search_term, {}) : search_start <= p

\* C1 amended: the same for every non-empty term.
C1_LeftmostExactNonEmptyTerm ==
    (Returned /\ option_field = {} /\ search_term # <<>>
       /\ Len(search_term) <= Len(linebuff)
       /\ Matches(linebuff, search_term, {}) # {})
    => /\ search_start # NULL
       /\ search_start = Min(Matches(linebuff, search_term, {}))
       /\ \A p \in Matches(linebuff, search_term, {}) : search_start <= p

\* the term is found past the start of the line, and stands there twice
C1_Witness ==
    /\ Returned /\ option_field = {}
    /\ Len(search_term) = 2
    /\ search_start = 1
    /\ Cardinality(Matches(linebuff, search_term, {})) = 2

\* C2: for a non-empty term and any subset of {ignoreCase, isolateWord}, one call
\* returns the leftmost offset that satisfies the active constraints, and NULL iff
\* there is none; the three examples of the specification give 8, 0 and none.
C2_LeftmostSatisfying ==
    (Returned /\ search_term # <<>>)
    => /\ Matches(linebuff, search_term, option_field) = {}
            <=> search_start = NULL
       /\ Matches(linebuff, search_term, option_field) # {}
            => search_start = Min(Matches(linebuff, search_term, option_field))
       /\ (linebuff = catalog_cat /\ search_term = cat
             /\ option_field = {OPTION_ISOLATE}) => search_start = 8
       /\ (linebuff = Hello /\ search_term = hello
             /\ option_field = {OPTION_IGNORE}) => search_start = 0
       /\ (linebuff = Hello /\ search_term = hello
             /\ option_field = {}) => search_start = NULL

\* a folded candidate that fails isolation stands before the returned offset
C2_Witness ==
    /\ Returned
    /\ option_field = {OPTION_IGNORE, OPTION_ISOLATE}
    /\ search_start > 0
    /\ search_term # SubSeq(linebuff, search_start + 1,
                            search_start + Len(search_term))
    /\ \E q \in 0..(search_start - 1) :
          /\ OccursAt(linebuff, search_term, TRUE, q)
          /\ ~IsolatedAt(linebuff, search_term, q)

(***************************************************************************)
(* SpecRange: get_low_range and get_high_range on one range string         *)
(***************************************************************************)
MaxRangeLen == 4
RangeAlphabet == {"0", "7", "-", "+", " ", "x"}

RangeExamples ==
    {<<"5","0","-","7","5">>, <<"7","5","-","5","0">>, <<"4","2">>,
     <<"a","b","c">>, <<"-","5">>,
     <<"9","9","9","9","9","9","9","9","9","9","9">>,
     <<"2","1","4","7","4","8","3","6","4","7">>,
     <<"2","1","4","7","4","8","3","6","4","8">>,
     <<"0","0","0","0","0","0","0","0","4","2">>,
     <<"9","9","9","9","9","9","9","9","9","9">>,
     <<"2","1","4","7","4","8","3","6","4","7","-","1">>,
     <<"3","-","2","1","4","7","4","8","3","6","5","0">>,
     <<"1","2","3","4","5","6","7","8","9","-","9","8","7","6","5","4","3","2","1","0">>,
     <<"7","-"," ","+","0","0","0","0","0","0","0","7">>,
     <<"1","-","2","-","3">>, <<"4","2","\n">>, <<"\t","4","2">>}

RangeInputs == Strings(RangeAlphabet, MaxRangeLen) \cup RangeExamples

InitRange ==
    /\ pc = "call_get_range"
    /\ range_arg \in RangeInputs
    /\ lowerrange = 0
    /\ upperrange = 0
    /\ option_field = {OPTION_RANGE}
    /\ search_term = <<>>
    /\ file = <<>>
    /\ stream = <<>>
    /\ save_file = "untouched"
    /\ linebuff = <<>>
    /\ linecount = 0
    /\ search_start = NULL
    /\ matches_on_line = 0
    /\ resultstracker = 0
    /\ out = <<>>
    /\ calls = 0
    /\ status = NONE

CallGetRange ==
    /\ pc = "call_get_range"
    /\ lowerrange' = get_low_range(range_arg)
    /\ upperrange' = get_high_range(range_arg)
    /\ pc' = "get_range_returned"
    /\ UNCHANGED <<option_field, range_arg, search_term, file, stream, save_file,
                   linebuff, linecount, search_start, matches_on_line,
                   resultstracker, out, calls, status>>

NextRange == CallGetRange

SpecRange == InitRange /\ [][NextRange]_vars

(***************************************************************************)
(* What the claims say of a range string, stated without the code          *)
(***************************************************************************)
IntMaxDigits == <<"2","1","4","7","4","8","3","6","4","7">>

AllDigits(s) == \A i \in 1..Len(s) : s[i] \in Range(Digits)

DigitOf(c) == (CHOOSE i \in 1..10 : Digits[i] = c) - 1

\* for two digit strings of one length: a denotes no more than b
RECURSIVE NotAbove(_, _)
NotAbove(a, b) ==
    IF a = <<>> THEN TRUE
    ELSE IF DigitOf(Head(a)) # DigitOf(Head(b))
         THEN DigitOf(Head(a)) < DigitOf(Head(b))
    ELSE NotAbove(Tail(a), Tail(b))

\* 1 to 10 decimal digits that denote a value of at most INT_MAX
Number(s) ==
    /\ Len(s) \in 1..10
    /\ AllDigits(s)
    /\ Len(s) = 10 => NotAbove(s, IntMaxDigits)

RECURSIVE ValueOf(_)
ValueOf(s) ==
    IF s = <<>> THEN 0
    ELSE 10 * ValueOf(SubSeq(s, 1, Len(s) - 1)) + DigitOf(s[Len(s)])

HasDash(s) == \E i \in 1..Len(s) : s[i] = "-"
FirstDash(s) == Min({i \in 1..Len(s) : s[i] = "-"})
LowSegment(s) == IF HasDash(s) THEN SubSeq(s, 1, FirstDash(s) - 1) ELSE s
HighSegment(s) == IF HasDash(s) THEN SubSeq(s, FirstDash(s) + 1, Len(s)) ELSE s

RangeReturned == pc = "get_range_returned"

\* C5: a number n without '-' gives (n, n); "A-B" with A and B numbers gives
\* (value of A, value of B), split at the first '-' and never reordered.
C5_RangeValues ==
    RangeReturned =>
      /\ (~HasDash(range_arg) /\ Number(range_arg))
            => /\ lowerrange = ValueOf(range_arg)
               /\ upperrange = ValueOf(range_arg)
      /\ (HasDash(range_arg) /\ Number(LowSegment(range_arg))
             /\ Number(HighSegment(range_arg)))
            => /\ lowerrange = ValueOf(LowSegment(range_arg))
               /\ upperrange = ValueOf(HighSegment(range_arg))
      /\ range_arg = <<"5","0","-","7","5">> => lowerrange = 50 /\ upperrange = 75
      /\ range_arg = <<"7","5","-","5","0">> => lowerrange = 75 /\ upperrange = 50
      /\ range_arg = <<"4","2">> => lowerrange = 42 /\ upperrange = 42

\* "A-B" with the larger bound first and ten digits on one side
C5_Witness ==
    /\ RangeReturned
    /\ HasDash(range_arg)
    /\ Number(LowSegment(range_arg)) /\ Number(HighSegment(range_arg))
    /\ Len(LowSegment(range_arg)) = 10
    /\ lowerrange > upperrange
    /\ upperrange > 0

\* C6: a side whose segment is empty, longer than 10 characters, holds a
\* character that is no digit, or denotes more than INT_MAX, gives -1,
\* whatever the other side gives.
C6_BadSegmentFails ==
    RangeReturned =>
      /\ ~Number(LowSegment(range_arg)) => lowerrange = -1
      /\ ~Number(HighSegment(range_arg)) => upperrange = -1

(***************************************************************************)
(* main: the inputs of a run                                               *)
(***************************************************************************)
MaxLineLen == 4       \* characters of a line before its newline
MaxTermLen == 2
MaxLines == 3
LineAlphabet == {"a", "A", "-"}

Input(options, range, term, content) ==
    [options |-> options, range |-> range, term |-> term, file |-> content]

\* the concatenation of a sequence of strings
RECURSIVE Concat(_)
Concat(ss) == IF ss = <<>> THEN <<>> ELSE Head(ss) \o Concat(Tail(ss))

\* one line that ends with a newline, any term, the options that steer the
\* matcher
MatchInputs ==
    {Input(o, <<>>, t, l \o <<NL>>) :
        o \in SUBSET {OPTION_IGNORE, OPTION_ISOLATE, OPTION_REMOVE},
        t \in Strings(LineAlphabet, MaxTermLen),
        l \in Strings(LineAlphabet, MaxLineLen)}

\* one line without a newline, as the last line of a file may be
LastLineInputs ==
    {Input(o, <<>>, t, l) :
        o \in SUBSET {OPTION_IGNORE, OPTION_ISOLATE},
        t \in Strings(LineAlphabet, MaxTermLen),
        l \in Strings(LineAlphabet, MaxLineLen)}

RangeArgs ==
    {<<"2">>, <<"2","-","3">>, <<"3","-","2">>, <<"0","-","1">>, <<"1","-","9">>,
     <<"3","-">>, <<"-","2">>, <<"x">>, <<" ","2">>,
     <<"9","9","9","9","9","9","9","9","9","9","9">>}

ShortLines == {<<"a", NL>>, <<"-", "a", "a", NL>>, <<NL>>}

\* up to MaxLines lines, the last one with or without its newline
Files ==
    LET whole == {Concat(ls) : ls \in Strings(ShortLines, MaxLines)}
    IN  whole \cup {SubSeq(f, 1, Len(f) - 1) : f \in whole \ {<<>>}}

\* several lines under a range and the options that steer the output
RangeRunInputs ==
    {Input(o \cup {OPTION_RANGE}, r, <<"a">>, f) :
        o \in SUBSET {OPTION_LINES, OPTION_SAVE, OPTION_REMOVE},
        r \in RangeArgs, f \in Files}

\* terms around MAX_TERM_LENGTH
LongTermInputs ==
    {Input(o, r, Rep("a", n), <<"a", "a", NL>>) :
        o \in {{}, {OPTION_SAVE}, {OPTION_RANGE}, {OPTION_RANGE, OPTION_SAVE}},
        r \in {<<"1">>, <<"x">>},
        n \in {MAX_TERM_LENGTH - 1, MAX_TERM_LENGTH, MAX_TERM_LENGTH + 1}}

\* lines around MAX_LINE_LENGTH, reported once each
LongLineInputs ==
    {Input(o \cup {OPTION_REMOVE}, <<"2">>, <<"a">>,
           Rep("a", n) \o <<NL, "a", NL>>) :
        o \in {{OPTION_LINES}, {OPTION_LINES, OPTION_RANGE}},
        n \in (MAX_LINE_LENGTH - 3)..(MAX_LINE_LENGTH + 1)}

the_cat == <<"T","h","e"," ","c","a","t"," ","s","a","t"," ","o","n"," ",
             "t","h","e"," ","m","a","t">>

ExampleInputs ==
    {Input(o, <<>>, <<"a","t">>, the_cat \o <<NL>>) :
        o \in SUBSET {OPTION_LINES, OPTION_IGNORE, OPTION_ISOLATE}}
    \cup {Input({OPTION_ISOLATE}, <<>>, cat, catalog_cat \o <<NL>>),
          Input({OPTION_ISOLATE}, <<>>, <<"-","a">>, <<"x"," ","-","a","-","a",NL>>),
          Input({OPTION_IGNORE}, <<>>, hello, Hello \o <<NL>> \o hello)}

(***************************************************************************)
(* main, from the range processing on                                      *)
(***************************************************************************)
\* main is entered with the arguments in
Start(in) ==
    /\ pc = "range_processing"
    /\ option_field = in.options
    /\ range_arg = in.range
    /\ search_term = in.term
    /\ file = in.file
    /\ stream = in.file
    /\ save_file = "untouched"
    /\ lowerrange = 0
    /\ upperrange = 0
    /\ linebuff = <<>>
    /\ linecount = 0
    /\ search_start = NULL
    /\ matches_on_line = 0
    /\ resultstracker = 0
    /\ out = <<>>
    /\ calls = 0
    /\ status = NONE

Init ==
    \/ \E in \in MatchInputs : Start(in)
    \/ \E in \in LastLineInputs : Start(in)
    \/ \E in \in RangeRunInputs : Start(in)
    \/ \E in \in LongTermInputs : Start(in)
    \/ \E in \in LongLineInputs : Start(in)
    \/ \E in \in ExampleInputs : Start(in)

\* return RETURN_VALUE out of main
Return(value) ==
    /\ status' = value
    /\ pc' = "exit"

\* the range left as it was parsed
sorted_range_no_swap(low, high) == <<low, high>>

\* "Sort the range values"
sorted_range(low, high) == IF high < low THEN <<high, low>> ELSE <<low, high>>

NoRange ==
    /\ pc = "range_processing"
    /\ OPTION_RANGE \notin option_field
    /\ pc' = "open_files"
    /\ UNCHANGED <<option_field, range_arg, search_term, file, stream, save_file,
                   lowerrange, upperrange, linebuff, linecount, search_start,
                   matches_on_line, resultstracker, out, calls, status>>

RangeInvalid ==
    /\ pc = "range_processing"
    /\ OPTION_RANGE \in option_field
    /\ lowerrange' = get_low_range(range_arg)
    /\ upperrange' = get_high_range(range_arg)
    /\ lowerrange' < 0 \/ upperrange' < 0
    /\ Return(1)
    /\ UNCHANGED <<option_field, range_arg, search_term, file, stream, save_file,
                   linebuff, linecount, search_start, matches_on_line,
                   resultstracker, out, calls>>

RangeValid ==
    /\ pc = "range_processing"
    /\ OPTION_RANGE \in option_field
    /\ LET low == get_low_range(range_arg)
           high == get_high_range(range_arg)
       IN  /\ ~(low < 0 \/ high < 0)
           /\ lowerrange' = sorted_range(low, high)[1]
           /\ upperrange' = sorted_range(low, high)[2]
    /\ pc' = "open_files"
    /\ UNCHANGED <<option_field, range_arg, search_term, file, stream, save_file,
                   linebuff, linecount, search_start, matches_on_line,
                   resultstracker, out, calls, status>>

\* fopen of the search file fails
OpenSearchFileFails ==
    /\ pc = "open_files"
    /\ Return(1)
    /\ UNCHANGED <<option_field, range_arg, search_term, file, stream, save_file,
                   lowerrange, upperrange, linebuff, linecount, search_start,
                   matches_on_line, resultstracker, out, calls>>

\* the search file is open, fopen(save_filepath, "w") fails
OpenSaveFileFails ==
    /\ pc = "open_files"
    /\ OPTION_SAVE \in option_field
    /\ save_file' = "not_opened"
    /\ Return(1)
    /\ UNCHANGED <<option_field, range_arg, search_term, file, stream,
                   lowerrange, upperrange, linebuff, linecount, search_start,
                   matches_on_line, resultstracker, out, calls>>

\* both streams are open; opening the save file for writing creates or
\* truncates it
OpenFiles ==
    /\ pc = "open_files"
    /\ save_file' = IF OPTION_SAVE \in option_field THEN "truncated" ELSE save_file
    /\ pc' = "check_term"
    /\ UNCHANGED <<option_field, range_arg, search_term, file, stream,
                   lowerrange, upperrange, linebuff, linecount, search_start,
                   matches_on_line, resultstracker, out, calls, status>>

TermTooLong ==
    /\ pc = "check_term"
    /\ strlen(search_term) >= MAX_TERM_LENGTH
    /\ linecount' = 1
    /\ resultstracker' = 0
    /\ Return(1)
    /\ UNCHANGED <<option_field, range_arg, search_term, file, stream, save_file,
                   lowerrange, upperrange, linebuff, search_start,
                   matches_on_line, out, calls>>

TermOk ==
    /\ pc = "check_term"
    /\ ~(strlen(search_term) >= MAX_TERM_LENGTH)
    /\ linecount' = 1
    /\ resultstracker' = 0
    /\ pc' = "fgets"
    /\ UNCHANGED <<option_field, range_arg, search_term, file, stream, save_file,
                   lowerrange, upperrange, linebuff, search_start,
                   matches_on_line, out, calls, status>>

\* the number of characters fgets(buf, size, f) stores when s is what is left
\* of f: up to and with the first newline, at most size - 1, all that is left
fgets_count(s, size) ==
    Min({size - 1, Len(s)} \cup {i \in 1..Len(s) : s[i] = NL})

ReadLine ==
    /\ pc = "fgets"
    /\ stream # <<>>
    /\ LET n == fgets_count(stream, MAX_LINE_LENGTH)
       IN  /\ linebuff' = SubSeq(stream, 1, n)
           /\ stream' = SubSeq(stream, n + 1, Len(stream))
    /\ pc' = "range_check"
    /\ UNCHANGED <<option_field, range_arg, search_term, file, save_file,
                   lowerrange, upperrange, linecount, search_start,
                   matches_on_line, resultstracker, out, calls, status>>

EndOfFile ==
    /\ pc = "fgets"
    /\ stream = <<>>
    /\ pc' = "cleanup"
    /\ UNCHANGED <<option_field, range_arg, search_term, file, stream, save_file,
                   lowerrange, upperrange, linebuff, linecount, search_start,
                   matches_on_line, resultstracker, out, calls, status>>

\* the condition of "1. Range check"
out_of_range(options, n, low, high) ==
    OPTION_RANGE \in options /\ (n < low \/ n > high)

SkipLine ==
    /\ pc = "range_check"
    /\ out_of_range(option_field, linecount, lowerrange, upperrange)
    /\ linecount' = linecount + 1
    /\ pc' = "fgets"
    /\ UNCHANGED <<option_field, range_arg, search_term, file, stream, save_file,
                   lowerrange, upperrange, linebuff, search_start,
                   matches_on_line, resultstracker, out, calls, status>>

TakeLine ==
    /\ pc = "range_check"
    /\ ~out_of_range(option_field, linecount, lowerrange, upperrange)
    /\ matches_on_line' = 0
    /\ search_start' = 0
    /\ pc' = "search"
    /\ UNCHANGED <<option_field, range_arg, search_term, file, stream, save_file,
                   lowerrange, upperrange, linebuff, linecount,
                   resultstracker, out, calls, status>>

\* search_start moved past one character only
advance_by_one(match, term) == match + 1

\* search_start after "search_start += strlen(search_term)"
advance(match, term) == match + strlen(term)

\* the value of search_line(search_start, search_term, option_field) as an
\* offset in linebuff
NextMatch ==
    LET found == search_line(StrFrom(linebuff, search_start), search_term,
                             option_field)
    IN  IF found = NULL THEN NULL ELSE search_start + found

\* one pass of the inner while loop that finds a match
SearchMatch ==
    /\ pc = "search"
    /\ NextMatch # NULL
    /\ calls' = calls + 1
    /\ matches_on_line' = matches_on_line + 1
    /\ out' = Append(out, [line |-> linecount,
                           at |-> NextMatch,
                           prefix |-> IF OPTION_LINES \in option_field
                                      THEN <<linecount, NextMatch + 1>>
                                      ELSE <<>>])
    /\ resultstracker' = resultstracker + 1
    /\ IF OPTION_REMOVE \in option_field
       THEN /\ search_start' = NextMatch
            /\ pc' = "line_done"
       ELSE /\ search_start' = advance(NextMatch, search_term)
            /\ pc' = "search"
    /\ UNCHANGED <<option_field, range_arg, search_term, file, stream, save_file,
                   lowerrange, upperrange, linebuff, linecount, status>>

\* the call that ends the inner while loop
SearchNoMatch ==
    /\ pc = "search"
    /\ NextMatch = NULL
    /\ calls' = calls + 1
    /\ search_start' = NULL
    /\ pc' = "line_done"
    /\ UNCHANGED <<option_field, range_arg, search_term, file, stream, save_file,
                   lowerrange, upperrange, linebuff, linecount,
                   matches_on_line, resultstracker, out, status>>

LineDone ==
    /\ pc = "line_done"
    /\ linecount' = linecount + 1
    /\ pc' = "fgets"
    /\ UNCHANGED <<option_field, range_arg, search_term, file, stream, save_file,
                   lowerrange, upperrange, linebuff, search_start,
                   matches_on_line, resultstracker, out, calls, status>>

Cleanup ==
    /\ pc = "cleanup"
    /\ Return(0)
    /\ UNCHANGED <<option_field, range_arg, search_term, file, stream, save_file,
                   lowerrange, upperrange, linebuff, linecount, search_start,
                   matches_on_line, resultstracker, out, calls>>

Next ==
    \/ NoRange
    \/ RangeInvalid
    \/ RangeValid
    \/ OpenSearchFileFails
    \/ OpenSaveFileFails
    \/ OpenFiles
    \/ TermTooLong
    \/ TermOk
    \/ ReadLine
    \/ EndOfFile
    \/ SkipLine
    \/ TakeLine
    \/ SearchMatch
    \/ SearchNoMatch
    \/ LineDone
    \/ Cleanup

Spec == Init /\ [][Next]_vars

(***************************************************************************)
(* The claims about main                                                   *)
(***************************************************************************)
\* a line is in linebuff and is being searched, or has just been
InLine == pc \in {"search", "line_done"}

\* the offsets reported so far for the line numbered n, in order
ReportedOn(n) ==
    LET es == SelectSeq(out, LAMBDA e : e.line = n)
    IN  [i \in 1..Len(es) |-> es[i].at]

Occurrences(line, term, options) ==
    {q \in 0..Len(line) : OccursAt(line, term, OPTION_IGNORE \in options, q)}

\* r is the greedy sequence of non-overlapping members of occ for a term of
\* length n: the leftmost, then each time the leftmost at or after the end
\* of the one before, until there is none
GreedySequence(r, occ, n) ==
    /\ occ = {} <=> r = <<>>
    /\ r # <<>> => r[1] = Min(occ)
    /\ \A k \in 1..(Len(r) - 1) :
          /\ {q \in occ : q >= r[k] + n} # {}
          /\ r[k + 1] = Min({q \in occ : q >= r[k] + n})
    /\ r # <<>> => {q \in occ : q >= r[Len(r)] + n} = {}

Plain == OPTION_ISOLATE \notin option_field /\ OPTION_REMOVE \notin option_field

\* C3 as stated: with isolateWord and removeDuplicateLines off, the offsets
\* reported for a line are the greedy non-overlapping sequence of the term's
\* occurrences, whatever the term.
C3_GreedyAnyTerm ==
    (pc = "line_done" /\ Plain)
    => GreedySequence(ReportedOn(linecount),
                      Occurrences(linebuff, search_term, option_field),
                      Len(search_term))

\* C3 amended: the same for every non-empty term; the spans of two reported
\* matches never overlap, "aaa" with "aa" reports offset 0 alone, and
\* "The cat sat on the mat" with "at" reports 5, 9, 20.
C3_GreedyNonEmptyTerm ==
    (pc = "line_done" /\ Plain /\ search_term # <<>>)
    => LET r == ReportedOn(linecount)
       IN  /\ GreedySequence(r, Occurrences(linebuff, search_term, option_field),
                             Len(search_term))
           /\ \A j, k \in 1..Len(r) : j < k => r[j] + Len(search_term) <= r[k]
           /\ (linebuff = <<"a","a","a",NL>> /\ search_term = <<"a","a">>
                 /\ OPTION_IGNORE \notin option_field) => r = <<0>>
           /\ (linebuff = the_cat \o <<NL>> /\ search_term = <<"a","t">>
                 /\ OPTION_IGNORE \notin option_field) => r = <<5, 9, 20>>

\* two matches are reported on a line where an overlapping occurrence is passed over
C3_Witness ==
    /\ pc = "line_done" /\ Plain
    /\ Len(search_term) = 2
    /\ Len(ReportedOn(linecount)) = 2
    /\ Cardinality(Occurrences(linebuff, search_term, option_field)) = 3

\* C4: with isolateWord set, every offset reported for a line is an isolated
\* match in the whole line buffer: no word character stands right before it
\* nor right after its last character.
C4_ReportedIsolated ==
    (InLine /\ OPTION_ISOLATE \in option_field)
    => \A i \in 1..Len(ReportedOn(linecount)) :
          IsolatedAt(linebuff, search_term, ReportedOn(linecount)[i])

LoopStates == {"fgets", "range_check", "search", "line_done"}

\* what C7 says of one step of a run under the range option
RangeFilterStep ==
    /\ (pc = "range_processing"
          /\ (get_low_range(range_arg) < 0 \/ get_high_range(range_arg) < 0))
       => (pc' = "exit" /\ status' = 1 /\ calls' = 0 /\ out' = <<>>)
    /\ pc \in LoopStates => (0 <= lowerrange /\ lowerrange <= upperrange)
    /\ pc' \in LoopStates => (0 <= lowerrange' /\ lowerrange' <= upperrange')
    /\ pc = "range_check"
       => /\ pc' = "search"
               <=> (lowerrange <= linecount /\ linecount <= upperrange)
          /\ pc' # "search"
               => /\ pc' = "fgets"
                  /\ linecount' = linecount + 1
                  /\ out' = out
                  /\ calls' = calls

\* C7: under the range option a failed bound ends the run with status 1 before
\* any line is searched; otherwise 0 <= lowerrange <= upperrange throughout the
\* line loop, and a line goes to the matcher iff its number lies in the range,
\* a skipped line printing nothing and still being counted.
C7_RangeFilter == [][(OPTION_RANGE \in option_field) => RangeFilterStep]_vars

\* the bounds were given in the wrong order, one line was skipped and a later one searched
C7_Witness ==
    /\ OPTION_RANGE \in option_field
    /\ get_high_range(range_arg) < get_low_range(range_arg)
    /\ get_high_range(range_arg) > 1
    /\ pc = "search"
    /\ linecount = lowerrange
    /\ lowerrange < upperrange

\* the number of newlines of FILE that precede what is in linebuff, plus one
InputLineIndex ==
    LET before == Len(file) - Len(stream) - Len(linebuff)
    IN  1 + Cardinality({i \in 1..before : file[i] = NL})

\* C8: whatever the length of the lines of the file, the line counter is the
\* 1-based index of the input line that is being processed.
C8_LineCounterIsLineIndex ==
    pc \in {"range_check", "search", "line_done"} => linecount = InputLineIndex

InvalidInput ==
    \/ /\ OPTION_RANGE \in option_field
       /\ (get_low_range(range_arg) < 0 \/ get_high_range(range_arg) < 0)
    \/ Len(search_term) >= MAX_TERM_LENGTH

\* C9: a run with an invalid range or a term of MAX_TERM_LENGTH characters or
\* more never calls search_line, never opens the save file for writing, and
\* exits with status 1.
C9_RejectedRunTouchesNothing ==
    InvalidInput =>
      /\ calls = 0
      /\ pc = "exit" => (status = 1 /\ save_file # "truncated")

\* C10: the enumeration of a line ends after finitely many calls: a pass of
\* the loop is always possible, and each pass either leaves the loop or moves
\* search_start forward by at least one character, never past the line's
\* terminator; every reported match lies within the line, so a line of n
\* characters sees at most n matches.  This holds for the empty term too.
C10_EnumerationTerminates ==
    /\ [](InLine /\ search_start # NULL
            => 0 <= search_start /\ search_start <= Len(linebuff))
    /\ [](InLine =>
            /\ matches_on_line <= Len(linebuff)
            /\ \A i \in 1..Len(ReportedOn(linecount)) :
                  ReportedOn(linecount)[i] + Len(search_term) <= Len(linebuff))
    /\ [](pc = "search" => ENABLED (SearchMatch \/ SearchNoMatch))
    /\ [][pc = "search" =>
            \/ pc' = "line_done"
            \/ pc' = "search" /\ search_start' >= search_start + 1]_vars

\* the window reached the terminator after a match at the end of the line
C10_Witness ==
    /\ pc = "search"
    /\ search_start = Len(linebuff)
    /\ matches_on_line > 1

\* the empty term was searched for and the loop was left
C10_WitnessEmptyTerm ==
    /\ pc = "line_done"
    /\ search_term = <<>>
    /\ linebuff # <<>>

====
